---- MODULE Spec2Model ----
(***************************************************************************)
(* A model of txt.py ("Text Processing Pro"): the regex explainer, the     *)
(* live match renderer, replace/undo in the editor, the saved-pattern      *)
(* library and the file load/save/restore handlers.                        *)
(*                                                                         *)
(* Strings are sequences of one-character strings.  Offsets are 0-based    *)
(* as in Python: the slice s[a:b] is Slice(s, a, b).                       *)
(*                                                                         *)
(* Python's re engine is modelled for a dialect of the pattern syntax:     *)
(* literal characters, ".", "^" and the postfix "*".  Within this dialect  *)
(* compile errors, greedy backtracking, the flags IGNORECASE, MULTILINE    *)
(* and DOTALL, and the empty-match rules of finditer/sub (Python >= 3.7)   *)
(* are modelled as the engine behaves.  The dialect has no groups, so a    *)
(* compiled pattern has cp.groups = 0.                                     *)
(***************************************************************************)
EXTENDS Integers, Sequences, FiniteSets, TLC

\* ------------------------------------------------------------------------
\* Bounds of the model
\* ------------------------------------------------------------------------
MaxTextLen == 3      \* longest text handed to the pure functions
MaxEditLen == 1      \* longest text the user types into the editor
MaxPatLen == 2       \* longest pattern the cheatsheet buttons build
MaxPieces == 3       \* pieces of a pattern handed to the explainer
MaxPatterns == 2     \* entries of the saved-pattern library

\* ------------------------------------------------------------------------
\* Strings
\* ------------------------------------------------------------------------
Slice(s, a, b) ==
    LET lo == IF a < 0 THEN 0 ELSE a
        hi == IF b > Len(s) THEN Len(s) ELSE b
    IN  IF hi <= lo THEN <<>> ELSE SubSeq(s, lo + 1, hi)

RECURSIVE Flatten(_)
Flatten(ss) == IF ss = <<>> THEN <<>> ELSE Head(ss) \o Flatten(Tail(ss))

SeqsUpTo(S, n) == UNION {[1..k -> S] : k \in 0..n}

DigitChars == {"0", "1", "2", "3", "4", "5", "6", "7", "8", "9"}
DigitNames == <<"0", "1", "2", "3", "4", "5", "6", "7", "8", "9">>
LowerOf(c) == IF c = "A" THEN "a" ELSE c

\* ------------------------------------------------------------------------
\* compile_pattern: re.compile(pattern, flags)
\* ------------------------------------------------------------------------
Flags(case_sensitive, multiline, dotall) ==
    [ignorecase |-> ~case_sensitive, multiline |-> multiline, dotall |-> dotall]

RECURSIVE ParseFrom(_, _, _)
ParseFrom(p, k, acc) ==
    IF k > Len(p) THEN [ok |-> TRUE, atoms |-> acc, err |-> ""]
    ELSE IF p[k] = "*" THEN
        IF acc = <<>> \/ acc[Len(acc)].kind = "bol"
        THEN [ok |-> FALSE, atoms |-> <<>>,
              err |-> "nothing to repeat at position " \o DigitNames[k]]
        ELSE IF acc[Len(acc)].star
        THEN [ok |-> FALSE, atoms |-> <<>>,
              err |-> "multiple repeat at position " \o DigitNames[k]]
        ELSE ParseFrom(p, k + 1, [acc EXCEPT ![Len(acc)].star = TRUE])
    ELSE ParseFrom(p, k + 1,
            Append(acc, [kind |-> IF p[k] = "^" THEN "bol"
                                  ELSE IF p[k] = "." THEN "dot" ELSE "lit",
                         ch |-> p[k], star |-> FALSE]))

compile_pattern(pattern, case_sensitive, multiline, dotall) ==
    LET r == ParseFrom(pattern, 1, <<>>)
    IN  [ok |-> r.ok, atoms |-> r.atoms, err |-> r.err, groups |-> 0,
         flags |-> Flags(case_sensitive, multiline, dotall)]

\* ------------------------------------------------------------------------
\* The matcher: cp.finditer(text) and cp.sub(repl, text)
\* ------------------------------------------------------------------------
AtBol(text, pos, fl) == pos = 0 \/ (fl.multiline /\ text[pos] = "\n")

CharMatches(atom, c, fl) ==
    IF atom.kind = "dot" THEN fl.dotall \/ c # "\n"
    ELSE IF fl.ignorecase THEN LowerOf(c) = LowerOf(atom.ch) ELSE c = atom.ch

RECURSIVE RunLen(_, _, _, _)
RunLen(atom, text, pos, fl) ==
    IF pos < Len(text) /\ CharMatches(atom, text[pos + 1], fl)
    THEN 1 + RunLen(atom, text, pos + 1, fl) ELSE 0

\* The end offset of the first match of atoms[k..] at pos in backtracking
\* order (greedy stars), or -1.
RECURSIVE MatchFrom(_, _, _, _, _)
RECURSIVE TryStar(_, _, _, _, _, _)
MatchFrom(atoms, k, text, pos, fl) ==
    IF k > Len(atoms) THEN pos
    ELSE LET atom == atoms[k] IN
         IF atom.kind = "bol"
         THEN IF AtBol(text, pos, fl) THEN MatchFrom(atoms, k + 1, text, pos, fl) ELSE -1
         ELSE IF atom.star
         THEN TryStar(atoms, k, text, pos, fl, RunLen(atom, text, pos, fl))
         ELSE IF pos < Len(text) /\ CharMatches(atom, text[pos + 1], fl)
              THEN MatchFrom(atoms, k + 1, text, pos + 1, fl) ELSE -1
TryStar(atoms, k, text, pos, fl, n) ==
    LET e == MatchFrom(atoms, k + 1, text, pos + n, fl)
    IN  IF e # -1 THEN e
        ELSE IF n = 0 THEN -1 ELSE TryStar(atoms, k, text, pos, fl, n - 1)

\* Left-to-right non-overlapping search.  After an empty match at s the next
\* match must advance: an empty match at s is refused once (forbid = s).
RECURSIVE ScanFrom(_, _, _, _)
ScanFrom(cp, text, s, forbid) ==
    IF s > Len(text) THEN <<>>
    ELSE LET e == MatchFrom(cp.atoms, 1, text, s, cp.flags)
         IN  IF e = -1 \/ (e = s /\ s = forbid)
             THEN ScanFrom(cp, text, s + 1, forbid)
             ELSE <<[start |-> s, end |-> e]>>
                  \o ScanFrom(cp, text, e, IF e = s THEN s ELSE -1)

finditer(cp, text) == ScanFrom(cp, text, 0, -1)

\* The replacement template of cp.sub: a backslash-digit is a group
\* reference, a doubled backslash is one backslash, \a is the bell
\* character, a backslash before another ASCII letter or at the end is an
\* error, everything else is literal.
RECURSIVE ParseTemplate(_, _, _, _)
ParseTemplate(t, k, groups, acc) ==
    IF k > Len(t) THEN [ok |-> TRUE, lit |-> acc, err |-> ""]
    ELSE IF t[k] # "\\" THEN ParseTemplate(t, k + 1, groups, Append(acc, t[k]))
    ELSE IF k = Len(t)
    THEN [ok |-> FALSE, lit |-> <<>>, err |-> "bad escape (end of pattern) at position " \o DigitNames[k]]
    ELSE IF t[k + 1] \in DigitChars \ {"0"}
    THEN \* the dialect has no groups: every reference is out of range
         [ok |-> FALSE, lit |-> <<>>,
          err |-> "invalid group reference " \o t[k + 1] \o " at position " \o DigitNames[k + 1]]
    ELSE IF t[k + 1] = "\\" THEN ParseTemplate(t, k + 2, groups, Append(acc, "\\"))
    ELSE IF t[k + 1] = "a" THEN ParseTemplate(t, k + 2, groups, Append(acc, "chr(7)"))
    ELSE IF t[k + 1] = "A"
    THEN [ok |-> FALSE, lit |-> <<>>, err |-> "bad escape \\" \o t[k + 1] \o " at position " \o DigitNames[k]]
    ELSE ParseTemplate(t, k + 2, groups, acc \o <<"\\", t[k + 1]>>)

RECURSIVE SubSpansKeepsMatch(_, _, _, _)
SubSpansKeepsMatch(text, spans, last, lit) ==
    IF spans = <<>> THEN Slice(text, last, Len(text))
    ELSE Slice(text, last, Head(spans).end) \o lit
         \o SubSpansKeepsMatch(text, Tail(spans), Head(spans).end, lit)

RECURSIVE SubSpans(_, _, _, _)
SubSpans(text, spans, last, lit) ==
    IF spans = <<>> THEN Slice(text, last, Len(text))
    ELSE Slice(text, last, Head(spans).start) \o lit
         \o SubSpans(text, Tail(spans), Head(spans).end, lit)

\* cp.sub(repl, text): [ok, text, err]
sub(cp, repl, text) ==
    LET t == ParseTemplate(repl, 1, cp.groups, <<>>)
    IN  IF ~t.ok THEN [ok |-> FALSE, text |-> text, err |-> t.err]
        ELSE [ok |-> TRUE, text |-> SubSpans(text, finditer(cp, text), 0, t.lit), err |-> ""]

\* ------------------------------------------------------------------------
\* html.escape and html.unescape
\* ------------------------------------------------------------------------
RECURSIVE ReplaceAll(_, _, _)
ReplaceAll(s, c, by) ==
    IF s = <<>> THEN <<>>
    ELSE (IF Head(s) = c THEN by ELSE <<Head(s)>>) \o ReplaceAll(Tail(s), c, by)

\* html.escape(s), quote=True: the ampersand is replaced first.
HtmlEscape(s) ==
    LET s1 == ReplaceAll(s, "&", <<"&", "a", "m", "p", ";">>)
        s2 == ReplaceAll(s1, "<", <<"&", "l", "t", ";">>)
        s3 == ReplaceAll(s2, ">", <<"&", "g", "t", ";">>)
        s4 == ReplaceAll(s3, "\"", <<"&", "q", "u", "o", "t", ";">>)
    IN  ReplaceAll(s4, "'", <<"&", "#", "x", "2", "7", ";">>)

\* html.unescape(s).  The named references are the ones html.escape writes,
\* with and without the semicolon, out of the html5 table.
Html5 ==
    [n \in {<<"a", "m", "p", ";">>, <<"a", "m", "p">>} |-> "&"] @@
    [n \in {<<"l", "t", ";">>, <<"l", "t">>} |-> "<"] @@
    [n \in {<<"g", "t", ";">>, <<"g", "t">>} |-> ">"] @@
    [n \in {<<"q", "u", "o", "t", ";">>, <<"q", "u", "o", "t">>} |-> "\""]

NameStop == {"\t", "\n", " ", "<", "&", "#", ";"}
HexDigits == DigitChars \cup {"a", "b", "c", "d", "e", "f", "A", "B", "C", "D", "E", "F"}
HexVal(c) ==
    IF c \in DigitChars THEN CHOOSE n \in 0..9 : DigitNames[n + 1] = c
    ELSE IF c \in {"a", "A"} THEN 10 ELSE IF c \in {"b", "B"} THEN 11
    ELSE IF c \in {"c", "C"} THEN 12 ELSE IF c \in {"d", "D"} THEN 13
    ELSE IF c \in {"e", "E"} THEN 14 ELSE 15

RECURSIVE RunOf(_, _)
RunOf(s, S) == IF s # <<>> /\ Head(s) \in S THEN 1 + RunOf(Tail(s), S) ELSE 0
RECURSIVE NameRun(_, _)
NameRun(s, room) ==
    IF room > 0 /\ s # <<>> /\ Head(s) \notin NameStop
    THEN 1 + NameRun(Tail(s), room - 1) ELSE 0
RECURSIVE NumVal(_, _)
NumVal(ds, base) ==
    IF ds = <<>> THEN 0
    ELSE NumVal(SubSeq(ds, 1, Len(ds) - 1), base) * base + HexVal(ds[Len(ds)])

\* chr(num) for the code points of the model's characters
Chr(num) ==
    IF num = 39 THEN "'" ELSE IF num = 34 THEN "\"" ELSE IF num = 38 THEN "&"
    ELSE IF num = 60 THEN "<" ELSE IF num = 62 THEN ">" ELSE IF num = 97 THEN "a"
    ELSE IF num = 65 THEN "A" ELSE IF num = 10 THEN "\n" ELSE "chr(other)"

\* The longest proper prefix of the name (at least two characters) that is a
\* reference, followed by the rest of the name; the text unchanged otherwise.
RECURSIVE PrefixRef(_, _)
PrefixRef(name, x) ==
    IF x < 2 THEN <<"&">> \o name
    ELSE IF SubSeq(name, 1, x) \in DOMAIN Html5
    THEN <<Html5[SubSeq(name, 1, x)]>> \o SubSeq(name, x + 1, Len(name))
    ELSE PrefixRef(name, x - 1)

RECURSIVE HtmlUnescape(_)
HtmlUnescape(s) ==
    IF s = <<>> THEN <<>>
    ELSE IF Head(s) # "&" THEN <<Head(s)>> \o HtmlUnescape(Tail(s))
    ELSE LET r == Tail(s)
             hex == Len(r) >= 2 /\ r[1] = "#" /\ r[2] \in {"x", "X"}
             dec == Len(r) >= 1 /\ r[1] = "#" /\ ~hex
             nd == IF hex THEN RunOf(SubSeq(r, 3, Len(r)), HexDigits)
                   ELSE IF dec THEN RunOf(Tail(r), DigitChars) ELSE 0
             nstart == IF hex THEN 3 ELSE 2
             nn == NameRun(r, 32)
             used == IF nd > 0 THEN nstart - 1 + nd ELSE nn
             semi == used < Len(r) /\ r[used + 1] = ";"
             all == used + (IF semi THEN 1 ELSE 0)
             name == SubSeq(r, 1, all)
             rest == SubSeq(r, all + 1, Len(r))
         IN  IF nd > 0
             THEN <<Chr(NumVal(SubSeq(r, nstart, nstart - 1 + nd), IF hex THEN 16 ELSE 10))>>
                  \o HtmlUnescape(rest)
             ELSE IF (Len(r) >= 1 /\ r[1] = "#") \/ nn = 0
             THEN <<"&">> \o HtmlUnescape(r)
             ELSE IF name \in DOMAIN Html5
             THEN <<Html5[name]>> \o HtmlUnescape(rest)
             ELSE PrefixRef(name, Len(name) - 1) \o HtmlUnescape(rest)

\* ------------------------------------------------------------------------
\* live_highlight: the markup is a sequence whose elements are the escaped
\* characters of the text and the wrapper tags, one element per tag.
\* ------------------------------------------------------------------------
MarkOpen(color) == "<mark style=\"background-color:" \o color \o ";\">"
MarkClose == "</mark>"
DivOpen == "<div style=\"white-space:pre-wrap; font-family: monospace;\">"
DivClose == "</div>"
Colors == {"yellow", "red", "green", "cyan", "magenta", "blue"}
WrapperTags == {MarkOpen(c) : c \in Colors} \cup {MarkClose, DivOpen, DivClose}

LoadMsg == <<"<p style='color:grey; font-family:monospace;'>Load a file or paste text to get started.</p>">>
EnterPatternMsg == <<"<p style='color:grey; font-family:monospace;'>Enter a pattern to see live highlighting.</p>">>
NoMatchesMsg == <<"<p style='color:grey; font-family:monospace;'>No matches found.</p>">>
ErrorMarkup(e) == <<"<p style=\"color:red; font-family: monospace;\">Invalid Regex: ", e, "</p>">>

\* The loop over the matches and the remainder after the last match.
RECURSIVE RenderLoopNoTail(_, _, _, _)
RenderLoopNoTail(text, ms, last_end, color) ==
    IF ms = <<>> THEN <<>>
    ELSE HtmlEscape(Slice(text, last_end, Head(ms).start))
         \o <<MarkOpen(color)>>
         \o HtmlEscape(Slice(text, Head(ms).start, Head(ms).end))
         \o <<MarkClose>>
         \o RenderLoopNoTail(text, Tail(ms), Head(ms).end, color)

RECURSIVE RenderLoop(_, _, _, _)
RenderLoop(text, ms, last_end, color) ==
    IF ms = <<>> THEN HtmlEscape(Slice(text, last_end, Len(text)))
    ELSE HtmlEscape(Slice(text, last_end, Head(ms).start))
         \o <<MarkOpen(color)>>
         \o HtmlEscape(Slice(text, Head(ms).start, Head(ms).end))
         \o <<MarkClose>>
         \o RenderLoop(text, Tail(ms), Head(ms).end, color)

\* What one call stores: highlight_output, match_count, and the list
\* `matches` it walked.
live_highlight_swallows_error(pattern, case_sensitive, multiline, dotall, text_content, color) ==
    IF pattern = <<>> \/ text_content = <<>>
    THEN [out |-> EnterPatternMsg, count |-> 0, matches |-> <<>>, compiled |-> FALSE]
    ELSE LET cp == compile_pattern(pattern, case_sensitive, multiline, dotall)
             ms == IF cp.ok THEN finditer(cp, text_content) ELSE <<>>
         IN  IF ms = <<>>
             THEN [out |-> NoMatchesMsg, count |-> 0, matches |-> <<>>, compiled |-> TRUE]
             ELSE [out |-> <<DivOpen>> \o RenderLoop(text_content, ms, 0, color) \o <<DivClose>>,
                   count |-> Len(ms), matches |-> ms, compiled |-> TRUE]

live_highlight(pattern, case_sensitive, multiline, dotall, text_content, color) ==
    IF pattern = <<>> \/ text_content = <<>>
    THEN [out |-> EnterPatternMsg, count |-> 0, matches |-> <<>>, compiled |-> FALSE]
    ELSE LET cp == compile_pattern(pattern, case_sensitive, multiline, dotall) IN
         IF ~cp.ok
         THEN [out |-> ErrorMarkup(cp.err), count |-> 0, matches |-> <<>>, compiled |-> TRUE]
         ELSE LET ms == finditer(cp, text_content) IN
              IF ms = <<>>
              THEN [out |-> NoMatchesMsg, count |-> 0, matches |-> <<>>, compiled |-> TRUE]
              ELSE [out |-> <<DivOpen>> \o RenderLoop(text_content, ms, 0, color) \o <<DivClose>>,
                    count |-> Len(ms), matches |-> ms, compiled |-> TRUE]

\* ------------------------------------------------------------------------
\* The session and its environment
\* ------------------------------------------------------------------------
None == <<>>
Some(x) == <<x>>

\* The welcome text the script puts into an empty editor, cut down to the
\* characters of the model: upper and lower case letters and a line break.
editor_placeholder == <<"A", "\n", "a">>

VARIABLES
    pattern_input, replace_with_input, case_sensitive_input, multiline_input,
    dotall_input, color_input,
    editor_content, last_editor_content, highlight_output, match_count,
    file_path, file_origin, original_filename, last_backup,
    patterns, pattern_name, saved_pattern_selection,
    sel_index,        \* the option the user picked in the saved-pattern selectbox
    patterns_file, fs,
    message,          \* what the last run showed: its toast, info or error
    hl_matches,       \* `matches` of the last live_highlight call
    original,         \* `original` of the last replace_editor_content call
    prev_original,    \* `original` of the successful replace right before it
    capture_matches,  \* the matches the last Capture Groups run iterated over
    confirm_open,     \* the Confirm Restore button is on the page
    ex_pattern, i, explanation, ex_pc, ex_result,
    fn_pc, fn_text, fn_out

patternVars == <<pattern_input, replace_with_input, case_sensitive_input,
                 multiline_input, dotall_input, color_input>>
editorVars == <<editor_content, last_editor_content>>
shownVars == <<highlight_output, match_count, hl_matches>>
fileVars == <<file_path, file_origin, original_filename, last_backup, fs>>
libVars == <<patterns, pattern_name, saved_pattern_selection, sel_index, patterns_file>>
runVars == <<message, original, prev_original, capture_matches, confirm_open>>
explainVars == <<ex_pattern, i, explanation, ex_pc, ex_result>>
fnVars == <<fn_pc, fn_text, fn_out>>
sessionVars == <<patternVars, editorVars, shownVars, fileVars, libVars, runVars>>
vars == <<sessionVars, explainVars, fnVars>>

\* ------------------------------------------------------------------------
\* The disk: files by path.  A path is a string of characters; a file has
\* bytes and a mode: "rw", "r" (read-only) or "-" (no access).
\* ------------------------------------------------------------------------
RECURSIVE Str(_)
Str(s) == IF s = <<>> THEN "" ELSE Head(s) \o Str(Tail(s))

BakSuffix == <<".", "b", "a", "k">>
Dir == <<"d">>
LocalFile == <<"d", "/", "f">>
Missing == <<"d", "/", "x">>
TmpPath == <<"/", "t">>
Paths == {Dir, LocalFile, Missing, TmpPath, Dir \o BakSuffix, LocalFile \o BakSuffix}

NoFile == [kind |-> "none", content |-> <<>>, mode |-> "-"]
Directory == [kind |-> "dir", content |-> <<>>, mode |-> "rw"]
File(content, mode) == [kind |-> "file", content |-> content, mode |-> mode]

\* os.path.exists, os.path.basename, str.endswith
exists(disk, path) == path \in DOMAIN disk /\ disk[path].kind # "none"
RECURSIVE basename(_)
basename(path) ==
    IF \E k \in 1..Len(path) : path[k] = "/"
    THEN basename(Tail(path))
    ELSE path
endswith(s, suffix) ==
    Len(s) >= Len(suffix) /\ Slice(s, Len(s) - Len(suffix), Len(s)) = suffix

IsADirectory(path) == "[Errno 21] Is a directory: '" \o Str(path) \o "'"
PermissionDenied(path) == "[Errno 13] Permission denied: '" \o Str(path) \o "'"
NoSuchFile(path) == "[Errno 2] No such file or directory: '" \o Str(path) \o "'"

\* open(path, "r"): the error it raises, "" when it opens
OpenReadError(disk, path) ==
    IF ~exists(disk, path) THEN NoSuchFile(path)
    ELSE IF disk[path].kind = "dir" THEN IsADirectory(path)
    ELSE IF disk[path].mode = "-" THEN PermissionDenied(path)
    ELSE ""

\* open(path, "w"): the error it raises, "" when it opens
OpenWriteError(disk, path) ==
    IF ~exists(disk, path) THEN ""
    ELSE IF disk[path].kind = "dir" THEN IsADirectory(path)
    ELSE IF disk[path].mode # "rw" THEN PermissionDenied(path)
    ELSE ""

\* Reading in text mode turns "\r\n" and a lone "\r" into "\n".
RECURSIVE UniversalNewlines(_)
UniversalNewlines(bytes) ==
    IF bytes = <<>> THEN <<>>
    ELSE IF Head(bytes) = "\r"
    THEN <<"\n">> \o UniversalNewlines(
             IF Len(bytes) >= 2 /\ bytes[2] = "\n" THEN Tail(Tail(bytes)) ELSE Tail(bytes))
    ELSE <<Head(bytes)>> \o UniversalNewlines(Tail(bytes))

\* shutil.copy2(src, dst): bytes and mode of src go to dst
copy2(disk, src, dst) ==
    LET err == IF OpenReadError(disk, src) # "" THEN OpenReadError(disk, src)
               ELSE OpenWriteError(disk, dst)
    IN  [ok |-> err = "", err |-> err,
         disk |-> IF err = "" THEN [disk EXCEPT ![dst] = disk[src]] ELSE disk]

\* stream_read_file (lines 164-185): any exception gives "" and an error
stream_read_file(disk, path) ==
    LET err == OpenReadError(disk, path)
    IN  [ok |-> err = "",
         content |-> IF err = "" THEN UniversalNewlines(disk[path].content) ELSE <<>>,
         err |-> IF err = "" THEN "" ELSE "Error reading file: " \o err]

\* save_editor_content_to_file (lines 188-201); the backup may already be
\* written when the write of the file fails
save_editor_content_to_file(disk, path, content) ==
    LET backup_path == path \o BakSuffix
        existed == exists(disk, path)
        cp == IF existed THEN copy2(disk, path, backup_path)
              ELSE [ok |-> TRUE, err |-> "", disk |-> disk]
        werr == OpenWriteError(cp.disk, path)
        mode == IF existed THEN disk[path].mode ELSE "rw"
    IN  IF ~cp.ok
        THEN [success |-> FALSE, backup |-> None,
              err |-> "Error while saving file: " \o cp.err, disk |-> disk]
        ELSE IF werr # ""
        THEN [success |-> FALSE, backup |-> None,
              err |-> "Error while saving file: " \o werr, disk |-> cp.disk]
        ELSE [success |-> TRUE,
              backup |-> IF existed THEN Some(backup_path) ELSE None,
              err |-> "",
              disk |-> [cp.disk EXCEPT ![path] = File(content, mode)]]

\* ------------------------------------------------------------------------
\* The patterns file: json.dump / json.load of the library (lines 138-153).
\* A document is the list of objects; a value is the text json writes for
\* it: a quoted, escaped string or true/false.
\* ------------------------------------------------------------------------
JsonEscapeChar(c) ==
    IF c = "\"" THEN <<"\\", "\"">>
    ELSE IF c = "\\" THEN <<"\\", "\\">>
    ELSE IF c = "\n" THEN <<"\\", "n">>
    ELSE <<c>>
JsonString(s) ==
    <<"\"">> \o Flatten([k \in 1..Len(s) |-> JsonEscapeChar(s[k])]) \o <<"\"">>
JsonBool(b) == IF b THEN <<"t", "r", "u", "e">> ELSE <<"f", "a", "l", "s", "e">>

RECURSIVE JsonUnescape(_)
JsonUnescape(s) ==
    IF s = <<>> THEN <<>>
    ELSE IF Head(s) = "\\" /\ Len(s) >= 2
    THEN <<IF s[2] = "n" THEN "\n" ELSE s[2]>> \o JsonUnescape(Tail(Tail(s)))
    ELSE <<Head(s)>> \o JsonUnescape(Tail(s))
JsonParseString(v) == JsonUnescape(Slice(v, 1, Len(v) - 1))
JsonParseBool(v) == v = <<"t", "r", "u", "e">>

JsonDump(ps) ==
    [k \in 1..Len(ps) |->
        [name |-> JsonString(ps[k].name),
         pattern |-> JsonString(ps[k].pattern),
         case_sensitive |-> JsonBool(ps[k].case_sensitive),
         multiline |-> JsonBool(ps[k].multiline),
         dotall |-> JsonBool(ps[k].dotall),
         color |-> JsonString(<<ps[k].color>>),
         replace_with |-> JsonString(ps[k].replace_with)]]
JsonLoad(doc) ==
    [k \in 1..Len(doc) |->
        [name |-> JsonParseString(doc[k].name),
         pattern |-> JsonParseString(doc[k].pattern),
         case_sensitive |-> JsonParseBool(doc[k].case_sensitive),
         multiline |-> JsonParseBool(doc[k].multiline),
         dotall |-> JsonParseBool(doc[k].dotall),
         color |-> Str(JsonParseString(doc[k].color)),
         replace_with |-> JsonParseString(doc[k].replace_with)]]

\* load_patterns_file (lines 138-146)
load_patterns_file ==
    IF patterns_file = None THEN <<>> ELSE JsonLoad(patterns_file[1])

\* Nothing on disk: no patterns file, no file at any path of the model.
EmptyDisk == patterns_file = None /\ fs = [p \in Paths |-> NoFile]

\* Session state after the first run of the script (lines 316-346, 523-525).
SessionInit ==
    /\ pattern_input = <<>> /\ replace_with_input = <<>>
    /\ case_sensitive_input = FALSE /\ multiline_input = FALSE
    /\ dotall_input = FALSE /\ color_input = "yellow"
    /\ editor_content = editor_placeholder /\ last_editor_content = None
    /\ highlight_output = LoadMsg /\ match_count = 0 /\ hl_matches = <<>>
    /\ file_path = None /\ file_origin = None
    /\ original_filename = "processed_file.txt" /\ last_backup = None
    /\ patterns = load_patterns_file /\ pattern_name = <<>>
    /\ saved_pattern_selection = None /\ sel_index = 0
    /\ message = "" /\ original = None /\ prev_original = None /\ capture_matches = None
    /\ confirm_open = FALSE

ExplainIdle ==
    /\ ex_pattern = <<>> /\ i = 0 /\ explanation = <<>> /\ ex_pc = "idle"
    /\ ex_result = <<>>
FnIdle == fn_pc = "idle" /\ fn_text = <<>> /\ fn_out = <<>>

\* The rerun of the script after a callback: an empty editor gets the
\* welcome text (lines 523-525).
Rerun(content) == IF content = <<>> THEN editor_placeholder ELSE content

\* live_highlight() called with the session as the action leaves it, the
\* editor holding `content`.
Highlight(pattern, cs, ml, da, content, color) ==
    LET r == live_highlight(pattern, cs, ml, da, content, color)
    IN  /\ highlight_output' = r.out
        /\ match_count' = r.count
        /\ hl_matches' = r.matches

\* ------------------------------------------------------------------------
\* What the user can type and click in the model
\* ------------------------------------------------------------------------
PatternInputs == {<<>>, <<"a">>, <<"a", "*">>, <<"*">>}
CheatsheetTokens == {<<"*">>}
ReplaceInputs == {<<>>, <<"\\", "1">>}
EditChars == {"a", "\n"}
EditInputs == SeqsUpTo(EditChars, MaxEditLen)

\* ------------------------------------------------------------------------
\* The pattern widgets (lines 360-374): on_change=live_highlight
\* ------------------------------------------------------------------------
SetPatternInput(p) ==
    /\ p # pattern_input
    /\ pattern_input' = p
    /\ Highlight(p, case_sensitive_input, multiline_input, dotall_input,
                 editor_content, color_input)
    /\ message' = "" /\ original' = None /\ prev_original' = None /\ capture_matches' = None
    /\ confirm_open' = FALSE
    /\ UNCHANGED <<replace_with_input, case_sensitive_input, multiline_input,
                   dotall_input, color_input, editorVars, fileVars, libVars,
                   explainVars, fnVars>>

SetCaseSensitive ==
    /\ case_sensitive_input' = ~case_sensitive_input
    /\ Highlight(pattern_input, ~case_sensitive_input, multiline_input,
                 dotall_input, editor_content, color_input)
    /\ message' = "" /\ original' = None /\ prev_original' = None /\ capture_matches' = None
    /\ confirm_open' = FALSE
    /\ UNCHANGED <<pattern_input, replace_with_input, multiline_input,
                   dotall_input, color_input, editorVars, fileVars, libVars,
                   explainVars, fnVars>>

SetMultiline ==
    /\ multiline_input' = ~multiline_input
    /\ Highlight(pattern_input, case_sensitive_input, ~multiline_input,
                 dotall_input, editor_content, color_input)
    /\ message' = "" /\ original' = None /\ prev_original' = None /\ capture_matches' = None
    /\ confirm_open' = FALSE
    /\ UNCHANGED <<pattern_input, replace_with_input, case_sensitive_input,
                   dotall_input, color_input, editorVars, fileVars, libVars,
                   explainVars, fnVars>>

SetDotall ==
    /\ dotall_input' = ~dotall_input
    /\ Highlight(pattern_input, case_sensitive_input, multiline_input,
                 ~dotall_input, editor_content, color_input)
    /\ message' = "" /\ original' = None /\ prev_original' = None /\ capture_matches' = None
    /\ confirm_open' = FALSE
    /\ UNCHANGED <<pattern_input, replace_with_input, case_sensitive_input,
                   multiline_input, color_input, editorVars, fileVars, libVars,
                   explainVars, fnVars>>

\* The replacement text input has no callback.
SetReplaceWith(t) ==
    /\ t # replace_with_input
    /\ replace_with_input' = t
    /\ message' = "" /\ original' = None /\ prev_original' = None /\ capture_matches' = None
    /\ confirm_open' = FALSE
    /\ UNCHANGED <<pattern_input, case_sensitive_input, multiline_input,
                   dotall_input, color_input, editorVars, shownVars, fileVars,
                   libVars, explainVars, fnVars>>

\* insert_token (lines 242-244), a cheatsheet button
insert_token(token) ==
    /\ Len(pattern_input) + Len(token) <= MaxPatLen
    /\ pattern_input' = pattern_input \o token
    /\ Highlight(pattern_input \o token, case_sensitive_input, multiline_input,
                 dotall_input, editor_content, color_input)
    /\ message' = "" /\ original' = None /\ prev_original' = None /\ capture_matches' = None
    /\ confirm_open' = FALSE
    /\ UNCHANGED <<replace_with_input, case_sensitive_input, multiline_input,
                   dotall_input, color_input, editorVars, fileVars, libVars,
                   explainVars, fnVars>>

\* ------------------------------------------------------------------------
\* The editor text area (lines 527-528): on_change=live_highlight, then the
\* rerun
\* ------------------------------------------------------------------------
EditEditor(t) ==
    /\ t # editor_content
    /\ editor_content' = Rerun(t)
    /\ Highlight(pattern_input, case_sensitive_input, multiline_input,
                 dotall_input, t, color_input)
    /\ message' = "" /\ original' = None /\ prev_original' = None /\ capture_matches' = None
    /\ confirm_open' = FALSE
    /\ UNCHANGED <<patternVars, last_editor_content, fileVars, libVars,
                   explainVars, fnVars>>

\* ------------------------------------------------------------------------
\* replace_editor_content (lines 277-302) and the rerun
\* ------------------------------------------------------------------------
ReplaceKeepsSnapshot ==
    LET cp == compile_pattern(pattern_input, case_sensitive_input,
                              multiline_input, dotall_input)
        r == sub(cp, replace_with_input, editor_content)
    IN  /\ capture_matches' = None /\ confirm_open' = FALSE
        /\ UNCHANGED <<patternVars, fileVars, libVars, explainVars, fnVars>>
        /\ IF editor_content = <<>>
           THEN /\ message' = "Editor is empty. Load a file first."
                /\ original' = None /\ prev_original' = None
                /\ UNCHANGED <<editorVars, shownVars>>
           ELSE IF pattern_input = <<>>
           THEN /\ message' = "Enter a regex pattern for replacement."
                /\ original' = None /\ prev_original' = None
                /\ UNCHANGED <<editorVars, shownVars>>
           ELSE IF ~cp.ok
           THEN /\ message' = "Invalid regex: " \o cp.err
                /\ original' = None /\ prev_original' = None
                /\ UNCHANGED <<editorVars, shownVars>>
           ELSE IF ~r.ok
           THEN \* the snapshot is already written when cp.sub raises
                /\ original' = Some(editor_content) /\ prev_original' = None
                /\ last_editor_content' = Some(editor_content)
                /\ message' = "Invalid regex: " \o r.err
                /\ UNCHANGED <<editor_content, shownVars>>
           ELSE /\ original' = Some(editor_content)
                /\ prev_original' = IF message = "Replacement complete."
                                    THEN original ELSE None
                /\ last_editor_content' = IF last_editor_content # None
                                          THEN last_editor_content
                                          ELSE Some(editor_content)
                /\ editor_content' = Rerun(r.text)
                /\ Highlight(pattern_input, case_sensitive_input, multiline_input,
                             dotall_input, r.text, color_input)
                /\ message' = "Replacement complete."

replace_editor_content ==
    LET cp == compile_pattern(pattern_input, case_sensitive_input,
                              multiline_input, dotall_input)
        r == sub(cp, replace_with_input, editor_content)
    IN  /\ capture_matches' = None /\ confirm_open' = FALSE
        /\ UNCHANGED <<patternVars, fileVars, libVars, explainVars, fnVars>>
        /\ IF editor_content = <<>>
           THEN /\ message' = "Editor is empty. Load a file first."
                /\ original' = None /\ prev_original' = None
                /\ UNCHANGED <<editorVars, shownVars>>
           ELSE IF pattern_input = <<>>
           THEN /\ message' = "Enter a regex pattern for replacement."
                /\ original' = None /\ prev_original' = None
                /\ UNCHANGED <<editorVars, shownVars>>
           ELSE IF ~cp.ok
           THEN /\ message' = "Invalid regex: " \o cp.err
                /\ original' = None /\ prev_original' = None
                /\ UNCHANGED <<editorVars, shownVars>>
           ELSE IF ~r.ok
           THEN \* the snapshot is already written when cp.sub raises
                /\ original' = Some(editor_content) /\ prev_original' = None
                /\ last_editor_content' = Some(editor_content)
                /\ message' = "Invalid regex: " \o r.err
                /\ UNCHANGED <<editor_content, shownVars>>
           ELSE /\ original' = Some(editor_content)
                /\ prev_original' = IF message = "Replacement complete."
                                    THEN original ELSE None
                /\ last_editor_content' = Some(editor_content)
                /\ editor_content' = Rerun(r.text)
                /\ Highlight(pattern_input, case_sensitive_input, multiline_input,
                             dotall_input, r.text, color_input)
                /\ message' = "Replacement complete."

\* ------------------------------------------------------------------------
\* undo_editor_content (lines 304-311) and the rerun
\* ------------------------------------------------------------------------
UndoKeepsSnapshot ==
    /\ original' = None /\ UNCHANGED prev_original
    /\ capture_matches' = None /\ confirm_open' = FALSE
    /\ UNCHANGED <<patternVars, fileVars, libVars, explainVars, fnVars>>
    /\ IF last_editor_content # None
       THEN /\ editor_content' = Rerun(last_editor_content[1])
            /\ UNCHANGED last_editor_content
            /\ Highlight(pattern_input, case_sensitive_input, multiline_input,
                         dotall_input, last_editor_content[1], color_input)
            /\ message' = "Undo complete."
       ELSE /\ message' = "No editor action to undo."
            /\ UNCHANGED <<editorVars, shownVars>>

undo_editor_content ==
    /\ original' = None /\ UNCHANGED prev_original
    /\ capture_matches' = None /\ confirm_open' = FALSE
    /\ UNCHANGED <<patternVars, fileVars, libVars, explainVars, fnVars>>
    /\ IF last_editor_content # None
       THEN /\ editor_content' = Rerun(last_editor_content[1])
            /\ last_editor_content' = None
            /\ Highlight(pattern_input, case_sensitive_input, multiline_input,
                         dotall_input, last_editor_content[1], color_input)
            /\ message' = "Undo complete."
       ELSE /\ message' = "No editor action to undo."
            /\ UNCHANGED <<editorVars, shownVars>>

\* ------------------------------------------------------------------------
\* The Capture Groups button (lines 538-585); cp.groups = 0 in the dialect,
\* so the results are the matched texts.
\* ------------------------------------------------------------------------
btn_capture ==
    LET cp == compile_pattern(pattern_input, case_sensitive_input,
                              multiline_input, dotall_input)
        ms == finditer(cp, editor_content)
    IN  /\ original' = None /\ prev_original' = None /\ confirm_open' = FALSE
        /\ UNCHANGED <<patternVars, editorVars, shownVars, fileVars, libVars,
                       explainVars, fnVars>>
        /\ IF pattern_input = <<>>
           THEN /\ message' = "Enter a regex pattern to capture groups."
                /\ capture_matches' = None
           ELSE IF ~cp.ok
           THEN /\ message' = "Invalid regex: " \o cp.err
                /\ capture_matches' = None
           ELSE /\ capture_matches' = Some(ms)
                /\ message' = IF ms = <<>> THEN "No matches found." ELSE "Captured Data"

\* ------------------------------------------------------------------------
\* The editor session: pattern, flags, editor, replace, undo, capture
\* ------------------------------------------------------------------------
Init == EmptyDisk /\ SessionInit /\ ExplainIdle /\ FnIdle

Next ==
    \/ \E p \in PatternInputs : SetPatternInput(p)
    \/ SetCaseSensitive
    \/ SetMultiline
    \/ SetDotall
    \/ \E t \in ReplaceInputs : SetReplaceWith(t)
    \/ \E token \in CheatsheetTokens : insert_token(token)
    \/ \E t \in EditInputs : EditEditor(t)
    \/ replace_editor_content
    \/ undo_editor_content
    \/ btn_capture

Spec == Init /\ [][Next]_vars

\* ------------------------------------------------------------------------
\* explain_regex (lines 30-135).  An entry of the explanation keeps the
\* title of its description, the token shown in it and the values put into
\* its text.
\* ------------------------------------------------------------------------
Entry(kind, token, a, b) == [kind |-> kind, token |-> token, a |-> a, b |-> b]

\* token_map (lines 33-45)
TokenMapKeys ==
    {<<".">>, <<"^">>, <<"$">>} \cup
    {<<"\\", c>> : c \in {"d", "D", "w", "W", "s", "S", "b", "B"}}
TokenMapName(t) ==
    CASE t = <<".">> -> "Any Character"
      [] t = <<"^">> -> "Start of String/Line"
      [] t = <<"$">> -> "End of String/Line"
      [] t = <<"\\", "d">> -> "Digit"
      [] t = <<"\\", "D">> -> "Not a Digit"
      [] t = <<"\\", "w">> -> "Word Character"
      [] t = <<"\\", "W">> -> "Not a Word Character"
      [] t = <<"\\", "s">> -> "Whitespace"
      [] t = <<"\\", "S">> -> "Not Whitespace"
      [] t = <<"\\", "b">> -> "Word Boundary"
      [] t = <<"\\", "B">> -> "Not a Word Boundary"

\* quantifier_map (lines 70-74)
QuantifierName(c) ==
    CASE c = "*" -> "Zero or More"
      [] c = "+" -> "One or More"
      [] c = "?" -> "Zero or One"

\* re.match(r'\{(\d+)(,)?(\d+)?\}', s) for s starting at the brace:
\* [ok, len, g1, g2, g3], the groups None when they took no part.
BraceMatch(s) ==
    LET n1 == RunOf(Tail(s), DigitChars)
        comma == Len(s) >= n1 + 2 /\ s[n1 + 2] = ","
        from3 == n1 + 2 + (IF comma THEN 1 ELSE 0)
        n3 == IF comma THEN RunOf(SubSeq(s, from3, Len(s)), DigitChars) ELSE 0
        close == from3 + n3
        ok == n1 >= 1 /\ Len(s) >= close /\ s[close] = "}"
    IN  [ok |-> ok,
         len |-> IF ok THEN close ELSE 0,
         g1 |-> IF ok THEN Some(SubSeq(s, 2, n1 + 1)) ELSE None,
         g2 |-> IF ok /\ comma THEN Some(<<",">>) ELSE None,
         g3 |-> IF ok /\ n3 >= 1 THEN Some(SubSeq(s, from3, from3 + n3 - 1)) ELSE None]

\* lines 79-92: the entry and the length consumed
BraceStepOneChar(m) ==
    LET desc == IF m.g2 = None /\ m.g3 = None THEN "exactly"
                ELSE IF m.g3 = None THEN "at least" ELSE "between"
    IN  [entries |-> <<Entry("Quantifier", SubSeq(<<"{">> \o Flatten(m.g1) \o Flatten(m.g2)
                                                   \o Flatten(m.g3) \o <<"}">>, 1, m.len),
                             <<desc>> \o Flatten(m.g1),
                             Flatten(m.g3))>>,
         adv |-> 1]

BraceStep(m) ==
    LET desc == IF m.g2 = None /\ m.g3 = None THEN "exactly"
                ELSE IF m.g3 = None THEN "at least" ELSE "between"
    IN  [entries |-> <<Entry("Quantifier", SubSeq(<<"{">> \o Flatten(m.g1) \o Flatten(m.g2)
                                                   \o Flatten(m.g3) \o <<"}">>, 1, m.len),
                             <<desc>> \o Flatten(m.g1),
                             Flatten(m.g3))>>,
         adv |-> m.len]

\* lines 94-106: the group opening at pattern[i]
GroupOpenStep(pattern, at) ==
    IF Slice(pattern, at, at + 3) = <<"(", "?", ":">>
    THEN [entries |-> <<Entry("Non-Capturing Group", <<"(", "?", ":">>, <<>>, <<>>)>>, adv |-> 2 + 1]
    ELSE IF Slice(pattern, at, at + 2) = <<"(", "?">>
    THEN [entries |-> <<Entry("Lookaround/Conditional", <<"(", "?">>, <<>>, <<>>)>>, adv |-> 1]
    ELSE [entries |-> <<Entry("Capturing Group", <<"(">>, <<>>, <<>>)>>, adv |-> 1]

\* lines 116-123
SetOpenSkipsTwo(pattern, at) ==
    IF Slice(pattern, at + 1, at + 2) = <<"^">>
    THEN [entries |-> <<Entry("Negated Character Set", <<"[", "^">>, <<>>, <<>>)>>, adv |-> 2]
    ELSE [entries |-> <<Entry("Character Set", <<"[">>, <<>>, <<>>)>>, adv |-> 2]

SetOpenStep(pattern, at) ==
    IF Slice(pattern, at + 1, at + 2) = <<"^">>
    THEN [entries |-> <<Entry("Negated Character Set", <<"[", "^">>, <<>>, <<>>)>>, adv |-> 1 + 1]
    ELSE [entries |-> <<Entry("Character Set", <<"[">>, <<>>, <<>>)>>, adv |-> 1]

LiteralStep(char) ==
    [entries |-> <<Entry("Literal Character", <<char>>, <<char>>, <<>>)>>, adv |-> 1]

EscapeStepOneChar(pattern, at) ==
    LET token == Slice(pattern, at, at + 2)
    IN  IF token \in TokenMapKeys
        THEN [entries |-> <<Entry(TokenMapName(token), token, <<>>, <<>>)>>, adv |-> 1]
        ELSE [entries |-> <<Entry("Literal Character", token, <<pattern[at + 2]>>, <<>>)>>,
              adv |-> 1]

\* A backslash with a character after it (lines 52-62)
EscapeStep(pattern, at) ==
    LET token == Slice(pattern, at, at + 2)
    IN  IF token \in TokenMapKeys
        THEN [entries |-> <<Entry(TokenMapName(token), token, <<>>, <<>>)>>, adv |-> 2]
        ELSE [entries |-> <<Entry("Literal Character", token, <<pattern[at + 2]>>, <<>>)>>,
              adv |-> 2]

\* One iteration of the loop (lines 48-130) with the cursor at `at` <
\* len(pattern): the entries appended and how far the cursor moves.
ScanStep(pattern, at) ==
    LET char == pattern[at + 1]
        m == BraceMatch(Slice(pattern, at, Len(pattern)))
    IN  IF char = "\\" /\ at + 1 < Len(pattern)
        THEN EscapeStep(pattern, at)
        ELSE IF <<char>> \in TokenMapKeys
        THEN [entries |-> <<Entry(TokenMapName(<<char>>), <<char>>, <<>>, <<>>)>>, adv |-> 1]
        ELSE IF char \in {"*", "+", "?"}
        THEN [entries |-> <<Entry(QuantifierName(char), <<char>>, <<>>, <<>>)>>, adv |-> 1]
        ELSE IF char = "{" /\ m.ok THEN BraceStep(m)
        ELSE IF char = "(" THEN GroupOpenStep(pattern, at)
        ELSE IF char = ")"
        THEN [entries |-> <<Entry("End Group", <<")">>, <<>>, <<>>)>>, adv |-> 1]
        ELSE IF char = "|"
        THEN [entries |-> <<Entry("Alternation / OR", <<"|">>, <<>>, <<>>)>>, adv |-> 1]
        ELSE IF char = "[" THEN SetOpenStep(pattern, at)
        ELSE IF char = "]"
        THEN [entries |-> <<Entry("End Character Set", <<"]">>, <<>>, <<>>)>>, adv |-> 1]
        ELSE LiteralStep(char)

EmptyExplanation ==
    <<Entry("This pattern appears to be empty or contains no standard regex tokens to explain.",
            <<>>, <<>>, <<>>)>>

\* The patterns explained: up to MaxPieces pieces, one after the other.
Pieces ==
    {<<c>> : c \in {"a", "\\", "d", "+", "?", "(", "{", "2", ",", "}", "[", "^"}}
    \cup {<<"(", "?", ":">>, <<"{", "2", ",", "5", "}">>, <<"{", "2", ",", "}">>}
ExplainInputs == {Flatten(ps) : ps \in SeqsUpTo(Pieces, MaxPieces)}

\* while i < len(pattern): one iteration
ExplainIterate ==
    /\ ex_pc = "scan" /\ i < Len(ex_pattern)
    /\ LET st == ScanStep(ex_pattern, i)
       IN  /\ explanation' = explanation \o st.entries
           /\ i' = i + st.adv
    /\ UNCHANGED <<ex_pattern, ex_pc, ex_result, sessionVars, fnVars>>

\* lines 132-135
ExplainReturn ==
    /\ ex_pc = "scan" /\ ~(i < Len(ex_pattern))
    /\ ex_result' = IF explanation = <<>> THEN EmptyExplanation ELSE explanation
    /\ ex_pc' = "done"
    /\ UNCHANGED <<ex_pattern, i, explanation, sessionVars, fnVars>>

\* explain_regex(pattern) is entered with any of the patterns: lines 31, 47
InitExplain ==
    /\ EmptyDisk /\ SessionInit /\ FnIdle
    /\ ex_pattern \in ExplainInputs
    /\ i = 0 /\ explanation = <<>> /\ ex_pc = "scan" /\ ex_result = <<>>

NextExplain == ExplainIterate \/ ExplainReturn

SpecExplain == InitExplain /\ [][NextExplain]_vars

\* ------------------------------------------------------------------------
\* Properties of the explainer
\* ------------------------------------------------------------------------

\* C1: explain_regex terminates on every pattern: each iteration of the loop
\* moves the cursor strictly forward and never past the end of the pattern,
\* so there are at most len(pattern) iterations before the loop condition
\* fails and the function returns; the sequence returned has at least one
\* entry.
C1_ExplainerTotal ==
    /\ [][ExplainIterate => (i' > i /\ i' <= Len(ex_pattern))]_vars
    /\ [](ex_pc = "scan" => i <= Len(ex_pattern))
    /\ [](ex_pc = "done" => (i = Len(ex_pattern) /\ Len(ex_result) >= 1))

C1_Witness ==
    /\ ex_pc = "done"
    /\ ex_pattern = <<"(", "[", "\\">>
    /\ Len(ex_result) = 3

\* C9: with the cursor at "{", a following {m}, {m,} or {m,n} (m, n digit
\* strings) gives exactly one entry, "exactly m", "at least m" or "between m
\* and n", and the cursor moves past the whole of it; any other shape gives
\* the literal entry for "{" and the cursor moves by one.  explain("a{2,5}")
\* has two entries.
AllDigits(s) == s # <<>> /\ \A k \in 1..Len(s) : s[k] \in DigitChars
IsExactly(s, n) == AllDigits(SubSeq(s, 2, n - 1)) /\ s[n] = "}" /\ s[1] = "{"
IsAtLeast(s, n) ==
    AllDigits(SubSeq(s, 2, n - 2)) /\ s[n - 1] = "," /\ s[n] = "}" /\ s[1] = "{"
IsBetween(s, c, n) ==
    /\ AllDigits(SubSeq(s, 2, c - 1)) /\ s[c] = ","
    /\ AllDigits(SubSeq(s, c + 1, n - 1)) /\ s[n] = "}" /\ s[1] = "{"
BraceExpected(s) ==
    IF \E n \in 3..Len(s) : IsExactly(s, n)
    THEN LET n == CHOOSE n \in 3..Len(s) : IsExactly(s, n)
         IN  [entry |-> Entry("Quantifier", SubSeq(s, 1, n),
                              <<"exactly">> \o SubSeq(s, 2, n - 1), <<>>),
              adv |-> n]
    ELSE IF \E n \in 4..Len(s) : IsAtLeast(s, n)
    THEN LET n == CHOOSE n \in 4..Len(s) : IsAtLeast(s, n)
         IN  [entry |-> Entry("Quantifier", SubSeq(s, 1, n),
                              <<"at least">> \o SubSeq(s, 2, n - 2), <<>>),
              adv |-> n]
    ELSE IF \E n \in 5..Len(s) : \E c \in 3..(n - 2) : IsBetween(s, c, n)
    THEN LET n == CHOOSE n \in 5..Len(s) : \E c \in 3..(n - 2) : IsBetween(s, c, n)
             c == CHOOSE c \in 3..(n - 2) : IsBetween(s, c, n)
         IN  [entry |-> Entry("Quantifier", SubSeq(s, 1, n),
                              <<"between">> \o SubSeq(s, 2, c - 1),
                              SubSeq(s, c + 1, n - 1)),
              adv |-> n]
    ELSE [entry |-> Entry("Literal Character", <<"{">>, <<"{">>, <<>>), adv |-> 1]

C9_BraceQuantifier ==
    /\ [][(ExplainIterate /\ ex_pattern[i + 1] = "{") =>
            LET want == BraceExpected(Slice(ex_pattern, i, Len(ex_pattern)))
            IN  /\ explanation' = Append(explanation, want.entry)
                /\ i' = i + want.adv]_vars
    /\ []((ex_pc = "done" /\ ex_pattern = <<"a", "{", "2", ",", "5", "}">>) =>
            (Len(ex_result) = 2 /\ ex_result[2].a = <<"between", "2">>
             /\ ex_result[2].b = <<"5">>))

C9_Witness ==
    /\ ex_pc = "done"
    /\ ex_pattern = <<"a", "{", "2", ",", "5", "}">>
    /\ Len(ex_result) = 2
    /\ ex_result[2].kind = "Quantifier"

\* The two-character escapes of the fixed table
EscapeClasses == {"d", "D", "w", "W", "s", "S", "b", "B"}

\* C11: with the cursor at a backslash that has a character after it, the
\* explainer appends exactly one entry to the entries so far and moves the
\* cursor by two; the entry is the description of the escape class when the
\* two characters are in the table, and otherwise a literal-character entry
\* naming the escaped character.  The pattern backslash, "d", "+" gives
\* exactly the digit entry and then the one-or-more entry.
C11_EscapeHandling ==
    /\ [][(ExplainIterate /\ ex_pattern[i + 1] = "\\" /\ i + 1 < Len(ex_pattern)) =>
            LET c == ex_pattern[i + 2]
                e == explanation'[Len(explanation')]
            IN  /\ Len(explanation') = Len(explanation) + 1
                /\ SubSeq(explanation', 1, Len(explanation)) = explanation
                /\ i' = i + 2
                /\ e.token = <<"\\", c>>
                /\ IF c \in EscapeClasses
                   THEN e.kind # "Literal Character" /\ e.a = <<>>
                   ELSE e.kind = "Literal Character" /\ e.a = <<c>>
                /\ c = "d" => e.kind = "Digit"]_vars
    /\ []((ex_pc = "done" /\ ex_pattern = <<"\\", "d", "+">>) =>
            ex_result = <<Entry("Digit", <<"\\", "d">>, <<>>, <<>>),
                          Entry("One or More", <<"+">>, <<>>, <<>>)>>)

C11_Witness ==
    /\ ex_pc = "done"
    /\ ex_pattern = <<"\\", "d", "+">>
    /\ Len(ex_result) = 2
    /\ ex_result[1].kind = "Digit" /\ ex_result[2].kind = "One or More"

\* C10: at "(" the explainer emits exactly one entry and moves the cursor
\* past the prefix it recognized: three characters for "(?:", two for "(?"
\* not followed by ":", one for a plain "(".
C10_GroupPrefixConsumed ==
    [][(ExplainIterate /\ ex_pattern[i + 1] = "(") =>
          /\ Len(explanation') = Len(explanation) + 1
          /\ i' = i + (IF Slice(ex_pattern, i, i + 3) = <<"(", "?", ":">> THEN 3
                       ELSE IF Slice(ex_pattern, i, i + 2) = <<"(", "?">> THEN 2
                       ELSE 1)]_vars

\* ------------------------------------------------------------------------
\* The file handlers: Load File to Editor, Save to File, Restore Backup
\* ------------------------------------------------------------------------
NoUpload == None
Uploads == {[name |-> "u.txt", content |-> <<"a", "\r", "\n">>]}
LocalPathInputs == {<<>>, Dir, LocalFile, Missing}
FileContents == {<<>>, <<"a">>, <<"a", "\r", "\n">>}
FileModes == {"rw", "r", "-"}

\* The Load File to Editor button (lines 488-512) and the rerun.  An
\* uploaded file is first written to a temporary file (lines 155-162).
LoadFile(uploaded_file, local_path) ==
    LET disk == IF uploaded_file # None
                THEN [fs EXCEPT ![TmpPath] = File(uploaded_file[1].content, "rw")]
                ELSE fs
        current_run_file_path ==
            IF uploaded_file # None THEN Some(TmpPath)
            ELSE IF local_path # <<>> /\ exists(fs, local_path) THEN Some(local_path)
            ELSE None
        file_origin_for_run == IF uploaded_file # None THEN "upload" ELSE "local"
        rd == stream_read_file(disk, current_run_file_path[1])
        filename == IF uploaded_file # None THEN uploaded_file[1].name
                    ELSE Str(basename(local_path))
    IN  /\ fs' = disk
        /\ original' = None /\ prev_original' = None /\ capture_matches' = None /\ confirm_open' = FALSE
        /\ UNCHANGED <<patternVars, last_backup, libVars, explainVars, fnVars>>
        /\ IF current_run_file_path # None
           THEN /\ editor_content' = Rerun(rd.content)
                /\ last_editor_content' = None
                /\ file_path' = current_run_file_path
                /\ file_origin' = Some(file_origin_for_run)
                /\ original_filename' = filename
                /\ Highlight(pattern_input, case_sensitive_input, multiline_input,
                             dotall_input, rd.content, color_input)
                /\ message' = IF rd.ok THEN "Loaded '" \o filename \o "' into editor."
                              ELSE rd.err
           ELSE /\ message' = IF local_path # <<>>
                              THEN "Local path does not exist on the server."
                              ELSE ""
                /\ UNCHANGED <<editorVars, shownVars, file_path, file_origin,
                               original_filename>>

\* The Save to File button (lines 568-569, 587-599); the page has it only
\* for a file loaded from a local path.
SaveToFile ==
    /\ file_origin = Some("local")
    /\ original' = None /\ prev_original' = None /\ capture_matches' = None /\ confirm_open' = FALSE
    /\ UNCHANGED <<patternVars, editorVars, shownVars, file_path, file_origin,
                   original_filename, libVars, explainVars, fnVars>>
    /\ IF file_path = None
       THEN /\ message' = "Could not find a file path. Please load a local file again."
            /\ UNCHANGED <<last_backup, fs>>
       ELSE LET r == save_editor_content_to_file(fs, file_path[1], editor_content)
            IN  /\ fs' = r.disk
                /\ IF r.success
                   THEN /\ last_backup' = r.backup
                        /\ message' = "File saved successfully. Backup created at: "
                                          \o (IF r.backup = None THEN "None"
                                              ELSE Str(r.backup[1]))
                   ELSE /\ message' = r.err
                        /\ UNCHANGED last_backup

\* The Restore Backup button (lines 601-612): with a backup on disk the
\* page shows the Confirm Restore button.
RestoreBackup ==
    /\ original' = None /\ prev_original' = None /\ capture_matches' = None
    /\ UNCHANGED <<patternVars, editorVars, shownVars, fileVars, libVars,
                   explainVars, fnVars>>
    /\ IF last_backup = None \/ ~exists(fs, last_backup[1])
       THEN /\ message' = "No file backup is available to restore."
            /\ confirm_open' = FALSE
       ELSE IF ~endswith(last_backup[1], BakSuffix)
       THEN /\ message' = "Could not determine the original file path from the backup."
            /\ confirm_open' = FALSE
       ELSE LET original_file == Slice(last_backup[1], 0, Len(last_backup[1]) - 4)
            IN  /\ message' = "Confirm restoring backup for '"
                                  \o Str(basename(original_file)) \o "'"
                /\ confirm_open' = TRUE

\* A click on Confirm Restore (lines 613-618).  The click reruns the script
\* with undo_file False, so the run does not reach the button's body.
ConfirmRestore ==
    /\ confirm_open
    /\ confirm_open' = FALSE
    /\ message' = "" /\ original' = None /\ prev_original' = None /\ capture_matches' = None
    /\ UNCHANGED <<patternVars, editorVars, shownVars, fileVars, libVars,
                   explainVars, fnVars>>

\* A session on a disk that holds a directory and a file in it.
InitFile ==
    /\ patterns_file = None
    /\ \E content \in FileContents, mode \in FileModes :
           fs = [p \in Paths |-> IF p = Dir THEN Directory
                                 ELSE IF p = LocalFile THEN File(content, mode)
                                 ELSE NoFile]
    /\ SessionInit /\ ExplainIdle /\ FnIdle

NextFile ==
    \/ \E u \in Uploads : LoadFile(Some(u), <<>>)
    \/ \E path \in LocalPathInputs : LoadFile(NoUpload, path)
    \/ \E t \in EditInputs : EditEditor(t)
    \/ SetPatternInput(<<"a">>)
    \/ SaveToFile
    \/ RestoreBackup
    \/ ConfirmRestore

SpecFile == InitFile /\ [][NextFile]_vars

\* ------------------------------------------------------------------------
\* The saved-pattern library (lines 425-439, 258-275, 458-486)
\* ------------------------------------------------------------------------
NameInputs == {<<>>, <<"\"">>}
LibPatternInputs == {<<"a">>}

\* The option text of a saved pattern in the selectbox (line 426)
Label(p) ==
    p.name \o <<" ", "|", " ">>
           \o (IF p.case_sensitive THEN <<"C", "S">> ELSE <<"C", "I">>)
           \o <<" ", "|", " ">> \o p.pattern
Options(ps) == [k \in 1..Len(ps) |-> Label(ps[k])]

\* list.index: the first position that holds the value
index(seq, x) ==
    CHOOSE k \in 1..Len(seq) : seq[k] = x /\ \A j \in 1..(k - 1) : seq[j] # x

\* The text input "Pattern name for saving"; it has no callback.
SetPatternName(n) ==
    /\ n # pattern_name
    /\ pattern_name' = n
    /\ message' = "" /\ original' = None /\ prev_original' = None /\ capture_matches' = None
    /\ confirm_open' = FALSE
    /\ UNCHANGED <<patternVars, editorVars, shownVars, fileVars, patterns,
                   saved_pattern_selection, sel_index, patterns_file,
                   explainVars, fnVars>>

\* The user picks the k-th option of the selectbox; the session keeps the
\* option's text.
SelectSaved(k) ==
    /\ k \in 1..Len(patterns)
    /\ saved_pattern_selection' = Some(Label(patterns[k]))
    /\ sel_index' = k
    /\ message' = "" /\ original' = None /\ prev_original' = None /\ capture_matches' = None
    /\ confirm_open' = FALSE
    /\ UNCHANGED <<patternVars, editorVars, shownVars, fileVars, patterns,
                   pattern_name, patterns_file, explainVars, fnVars>>

\* load_saved_pattern (lines 258-275), the Load button; disabled without a
\* selection
load_saved_pattern ==
    /\ saved_pattern_selection # None
    /\ original' = None /\ prev_original' = None /\ capture_matches' = None /\ confirm_open' = FALSE
    /\ UNCHANGED <<editorVars, fileVars, patterns, saved_pattern_selection,
                   sel_index, patterns_file, explainVars, fnVars>>
    /\ LET sel == saved_pattern_selection[1]
           options == Options(patterns)
       IN  IF \E k \in 1..Len(options) : options[k] = sel
           THEN LET p == patterns[index(options, sel)]
                IN  /\ pattern_input' = p.pattern
                    /\ case_sensitive_input' = p.case_sensitive
                    /\ color_input' = p.color
                    /\ pattern_name' = p.name
                    /\ replace_with_input' = p.replace_with
                    /\ multiline_input' = p.multiline
                    /\ dotall_input' = p.dotall
                    /\ message' = "Loaded pattern '" \o Str(p.name) \o "'"
                    /\ Highlight(p.pattern, p.case_sensitive, p.multiline,
                                 p.dotall, editor_content, p.color)
           ELSE /\ message' = ""
                /\ UNCHANGED <<patternVars, pattern_name, shownVars>>

\* save_patterns_file (lines 148-153): the file after the write, which may
\* fail
WritePatterns(ps, io_ok) == IF io_ok THEN Some(JsonDump(ps)) ELSE patterns_file
SaveFailed == "Failed to save patterns: [Errno 13] Permission denied: '~/.textproc_patterns.json'"

\* The Save button of the library (lines 458-476).  After it the selectbox
\* is built anew from the changed options, with nothing selected.
save_pat(io_ok) ==
    /\ Len(patterns) < MaxPatterns
    /\ original' = None /\ prev_original' = None /\ capture_matches' = None /\ confirm_open' = FALSE
    /\ UNCHANGED <<patternVars, editorVars, shownVars, fileVars, pattern_name,
                   explainVars, fnVars>>
    /\ IF pattern_input = <<>>
       THEN /\ message' = "Enter a pattern to save."
            /\ UNCHANGED <<patterns, saved_pattern_selection, sel_index,
                           patterns_file>>
       ELSE LET pname == IF pattern_name # <<>> THEN pattern_name
                         ELSE <<"p", "a", "t", "t", "e", "r", "n", "_",
                                DigitNames[Len(patterns) + 2]>>
                new_pattern == [name |-> pname,
                                pattern |-> pattern_input,
                                case_sensitive |-> case_sensitive_input,
                                multiline |-> multiline_input,
                                dotall |-> dotall_input,
                                color |-> color_input,
                                replace_with |-> replace_with_input]
            IN  /\ patterns' = Append(patterns, new_pattern)
                /\ patterns_file' = WritePatterns(patterns', io_ok)
                /\ saved_pattern_selection' = None /\ sel_index' = 0
                /\ message' = IF io_ok THEN "Saved pattern '" \o Str(pname) \o "'"
                              ELSE SaveFailed

\* The Delete button (lines 479-486); disabled without a selection
delete_pat(io_ok) ==
    /\ saved_pattern_selection # None
    /\ original' = None /\ prev_original' = None /\ capture_matches' = None /\ confirm_open' = FALSE
    /\ UNCHANGED <<patternVars, editorVars, shownVars, fileVars, pattern_name,
                   explainVars, fnVars>>
    /\ LET idx == index(Options(patterns), saved_pattern_selection[1])
           name_del == patterns[idx].name
       IN  /\ patterns' = [k \in 1..(Len(patterns) - 1) |->
                              IF k < idx THEN patterns[k] ELSE patterns[k + 1]]
           /\ patterns_file' = WritePatterns(patterns', io_ok)
           /\ saved_pattern_selection' = None /\ sel_index' = 0
           /\ message' = IF io_ok THEN "Deleted pattern '" \o Str(name_del) \o "'"
                         ELSE SaveFailed

\* A new session: the script's first run, the library read from the
\* patterns file (lines 316-346).
NewSession ==
    /\ pattern_input' = <<>> /\ replace_with_input' = <<>>
    /\ case_sensitive_input' = FALSE /\ multiline_input' = FALSE
    /\ dotall_input' = FALSE /\ color_input' = "yellow"
    /\ editor_content' = editor_placeholder /\ last_editor_content' = None
    /\ highlight_output' = LoadMsg /\ match_count' = 0 /\ hl_matches' = <<>>
    /\ file_path' = None /\ file_origin' = None
    /\ original_filename' = "processed_file.txt" /\ last_backup' = None
    /\ patterns' = load_patterns_file /\ pattern_name' = <<>>
    /\ saved_pattern_selection' = None /\ sel_index' = 0
    /\ message' = "" /\ original' = None /\ prev_original' = None /\ capture_matches' = None
    /\ confirm_open' = FALSE
    /\ UNCHANGED <<patterns_file, fs, explainVars, fnVars>>

NextLib ==
    \/ \E p \in LibPatternInputs : SetPatternInput(p)
    \/ SetMultiline
    \/ \E n \in NameInputs : SetPatternName(n)
    \/ \E k \in 1..MaxPatterns : SelectSaved(k)
    \/ load_saved_pattern
    \/ \E io_ok \in BOOLEAN : save_pat(io_ok)
    \/ \E io_ok \in BOOLEAN : delete_pat(io_ok)
    \/ NewSession

SpecLib == Init /\ [][NextLib]_vars

\* ------------------------------------------------------------------------
\* The renderer and the substitution on their own: live_highlight() entered
\* with any pattern, flags and editor text (the text may be empty when the
\* callback runs), and cp.sub with the empty template applied twice.
\* ------------------------------------------------------------------------
RenderChars == {"a", "<", "&", "\""}
RenderPatterns == {<<>>, <<"a">>, <<"<">>, <<"a", "*">>, <<"*">>, <<"&", "*", "*">>}
SubChars == {"a", "\n"}
SubPatterns == {<<"a">>, <<"^", "a">>, <<"a", "*">>, <<"a", "a">>, <<".">>}

InitFn(pats, chars) ==
    /\ ExplainIdle
    /\ pattern_input \in pats /\ replace_with_input = <<>>
    /\ case_sensitive_input \in BOOLEAN /\ multiline_input \in BOOLEAN
    /\ dotall_input \in BOOLEAN /\ color_input \in {"yellow", "red"}
    /\ editor_content \in SeqsUpTo(chars, MaxTextLen) /\ last_editor_content = None
    /\ highlight_output = LoadMsg /\ match_count = 0 /\ hl_matches = <<>>
    /\ file_path = None /\ file_origin = None
    /\ original_filename = "processed_file.txt" /\ last_backup = None
    /\ patterns = <<>> /\ pattern_name = <<>> /\ saved_pattern_selection = None
    /\ sel_index = 0 /\ EmptyDisk
    /\ message = "" /\ original = None /\ prev_original = None /\ capture_matches = None
    /\ confirm_open = FALSE
    /\ fn_pc = "call" /\ fn_text = editor_content /\ fn_out = <<>>

CallLiveHighlight ==
    /\ fn_pc = "call"
    /\ Highlight(pattern_input, case_sensitive_input, multiline_input,
                 dotall_input, editor_content, color_input)
    /\ fn_pc' = "done"
    /\ UNCHANGED <<patternVars, editorVars, fileVars, libVars, runVars,
                   explainVars, fn_text, fn_out>>

InitRender == InitFn(RenderPatterns, RenderChars)
NextRender == CallLiveHighlight
SpecRender == InitRender /\ [][NextRender]_vars

\* replaced = cp.sub("", text) (line 297), on the text and then on its result
CallSub ==
    /\ fn_pc = "call" /\ Len(fn_out) < 2
    /\ LET cp == compile_pattern(pattern_input, case_sensitive_input,
                                 multiline_input, dotall_input)
           text == IF fn_out = <<>> THEN fn_text ELSE fn_out[Len(fn_out)]
       IN  fn_out' = Append(fn_out, sub(cp, replace_with_input, text).text)
    /\ fn_pc' = IF Len(fn_out) = 1 THEN "done" ELSE "call"
    /\ UNCHANGED <<sessionVars, explainVars, fn_text>>

InitSub == InitFn(SubPatterns, SubChars)
NextSub == CallSub
SpecSub == InitSub /\ [][NextSub]_vars

\* ------------------------------------------------------------------------
\* Properties of the editor session
\* ------------------------------------------------------------------------
UndoMessages == {"Undo complete.", "No editor action to undo."}

\* C2: an undo right after a successful replace on text T sets the editor to
\* exactly T and empties the snapshot; an undo right after that undo changes
\* no session state and reports that there is nothing to undo.
C2_UndoRestores ==
    [][/\ (message = "Replacement complete." /\ message' \in UndoMessages) =>
            (/\ message' = "Undo complete."
             /\ editor_content' = original[1]
             /\ last_editor_content' = None)
       /\ (message = "Undo complete." /\ message' \in UndoMessages) =>
            (/\ message' = "No editor action to undo."
             /\ UNCHANGED <<patternVars, editorVars, shownVars, fileVars, libVars>>)]_vars

C2_Witness ==
    /\ message = "Undo complete."
    /\ pattern_input = <<"a">> /\ replace_with_input = <<>>
    /\ editor_content = editor_placeholder
    /\ last_editor_content = None

\* C13: the session holds at most one undo snapshot.  After two successful
\* replacements in a row, T0 -> T1 -> T2, the snapshot is T1; the undo that
\* follows sets the editor to T1, never to a T0 that differs from it, and
\* empties the snapshot; a further undo leaves the editor at T1.
C13_DepthOneUndo ==
    /\ [](Len(last_editor_content) <= 1)
    /\ []((message = "Replacement complete." /\ prev_original # None) =>
            last_editor_content = original)
    /\ [][/\ (/\ message = "Replacement complete." /\ prev_original # None
               /\ message' \in UndoMessages) =>
                (/\ message' = "Undo complete."
                 /\ editor_content' = original[1]
                 /\ (original # prev_original => editor_content' # prev_original[1])
                 /\ last_editor_content' = None)
          /\ (/\ message = "Undo complete." /\ prev_original # None
               /\ message' \in UndoMessages) =>
                (/\ message' = "No editor action to undo."
                 /\ UNCHANGED <<editor_content, last_editor_content>>)]_vars

\* T0 = "a" -> T1 = the welcome text (the replace emptied the editor) ->
\* T2; the undo has put T1 back and a further undo has left it there.
C13_Witness ==
    /\ message = "No editor action to undo."
    /\ prev_original = Some(<<"a">>)
    /\ editor_content = editor_placeholder
    /\ last_editor_content = None

\* C7: the match spans Capture Groups iterates over are the match spans the
\* live highlighting shows and counts.
C7_HighlightCaptureAgree ==
    capture_matches # None =>
        (capture_matches[1] = hl_matches /\ Len(capture_matches[1]) = match_count)

\* The number of matches of the current pattern under the current flags in
\* the current editor text, 0 for an empty or an invalid pattern.
CurrentMatchCount ==
    LET cp == compile_pattern(pattern_input, case_sensitive_input,
                              multiline_input, dotall_input)
    IN  IF pattern_input = <<>> \/ ~cp.ok THEN 0
        ELSE Len(finditer(cp, editor_content))

\* C14: after every user action and its rerun the stored match_count is the
\* number of matches of the current pattern in the current editor text.
C14_MatchCountCurrent == match_count = CurrentMatchCount

\* The run reports a regex error: of compiling the current pattern, or of
\* the replacement template.
RegexErrorReported ==
    LET cp == compile_pattern(pattern_input, case_sensitive_input,
                              multiline_input, dotall_input)
        r == sub(cp, replace_with_input, editor_content)
    IN  \/ ~cp.ok /\ message' = "Invalid regex: " \o cp.err
        \/ cp.ok /\ ~r.ok /\ message' = "Invalid regex: " \o r.err

\* C15: a run that reports a regex error leaves the editor text and the
\* undo snapshot as they were.
C15_FailedReplaceKeepsSnapshot ==
    [][RegexErrorReported => UNCHANGED <<editor_content, last_editor_content>>]_vars

\* ------------------------------------------------------------------------
\* Properties of the file handlers
\* ------------------------------------------------------------------------
OsErrors(path) == {IsADirectory(path), PermissionDenied(path), NoSuchFile(path)}
ReadErrors == {"Error reading file: " \o e : e \in UNION {OsErrors(p) : p \in Paths}}
WriteErrors == {"Error while saving file: " \o e : e \in UNION {OsErrors(p) : p \in Paths}}

\* C4: a run that reports an error of reading the file or of saving the
\* file leaves the editor text, the undo snapshot, the file path, the file
\* origin, the original filename and the last backup as they were.
C4_IOErrorKeepsState ==
    [][message' \in ReadErrors \cup WriteErrors =>
          UNCHANGED <<editor_content, last_editor_content, file_path, file_origin,
                      original_filename, last_backup>>]_vars

\* C12: with P.bak recorded as the last backup by a successful save of the
\* file P, the click on Confirm Restore that follows Restore Backup copies
\* P.bak over P, so P holds the bytes it had before the save (the bytes of
\* P.bak), and clears the recorded last backup.
C12_ConfirmRestoreCopies ==
    [][ConfirmRestore =>
          LET backup_file == last_backup[1]
              original_file == Slice(backup_file, 0, Len(backup_file) - 4)
          IN  /\ fs'[original_file].content = fs[backup_file].content
              /\ last_backup' = None]_vars

\* ------------------------------------------------------------------------
\* Properties of the saved-pattern library
\* ------------------------------------------------------------------------
LoadedToasts == {"Loaded pattern '" \o Str(patterns[k].name) \o "'" : k \in 1..Len(patterns)}

\* C5: with the library as it reads from the patterns file, loading the
\* entry the user picked - the one saved last, at the end of the list -
\* sets the pattern, case sensitivity, multiline and dotall of the session
\* to the values the patterns file holds for that entry, whatever other
\* entries with the same name or the same option text the library holds.
C5_LoadGivesSavedValues ==
    [][(/\ message' \in LoadedToasts
        /\ patterns_file # None /\ patterns = JsonLoad(patterns_file[1])
        /\ sel_index = Len(patterns)) =>
          LET saved == JsonLoad(patterns_file[1])[sel_index]
          IN  /\ pattern_input' = saved.pattern
              /\ case_sensitive_input' = saved.case_sensitive
              /\ multiline_input' = saved.multiline
              /\ dotall_input' = saved.dotall]_vars

\* ------------------------------------------------------------------------
\* Properties of the renderer and of the substitution
\* ------------------------------------------------------------------------
NotWrapperTag(x) == x \notin WrapperTags
StripWrappers(markup) == SelectSeq(markup, NotWrapperTag)

C8_CompileErrorContained ==
    LET cp == compile_pattern(pattern_input, case_sensitive_input,
                              multiline_input, dotall_input)
    IN  (fn_pc = "done" /\ pattern_input # <<>> /\ editor_content # <<>> /\ ~cp.ok) =>
           /\ highlight_output =
                <<"<p style=\"color:red; font-family: monospace;\">Invalid Regex: ",
                  cp.err, "</p>">>
           /\ match_count = 0
           /\ pattern_input = <<"*">> => cp.err = "nothing to repeat at position 0"
           /\ pattern_input = <<"&", "*", "*">> => cp.err = "multiple repeat at position 2"

C8_Witness ==
    /\ fn_pc = "done" /\ pattern_input = <<"&", "*", "*">>
    /\ editor_content = <<"a">>
    /\ highlight_output[2] = "multiple repeat at position 2"
    /\ match_count = 0

\* The number of characters the matches of the pattern cover in a text.
RECURSIVE TotalMatched(_)
TotalMatched(ms) ==
    IF ms = <<>> THEN 0 ELSE (Head(ms).end - Head(ms).start) + TotalMatched(Tail(ms))
MatchesIn(text) ==
    finditer(compile_pattern(pattern_input, case_sensitive_input,
                             multiline_input, dotall_input), text)

\* C6 as stated: the second substitution gives the text of the first or a
\* text with strictly fewer matches than the text it was run on.
C6_FewerMatches ==
    Len(fn_out) = 2 =>
        \/ fn_out[2] = fn_out[1]
        \/ Len(MatchesIn(fn_out[2])) < Len(MatchesIn(fn_out[1]))

\* C6, amended: the first substitution removes exactly the matched
\* characters, and the second gives the text of the first or a strictly
\* shorter text.
C6_SameOrShorter ==
    /\ Len(fn_out) >= 1 =>
          Len(fn_out[1]) = Len(fn_text) - TotalMatched(MatchesIn(fn_text))
    /\ Len(fn_out) = 2 =>
          \/ fn_out[2] = fn_out[1]
          \/ Len(fn_out[2]) < Len(fn_out[1])

C6_Witness ==
    /\ Len(fn_out) = 2 /\ pattern_input = <<"^", "a">> /\ ~multiline_input
    /\ fn_text = <<"a", "a", "a">>
    /\ fn_out = <<(<<"a", "a">>), (<<"a">>)>>

====
